---- MODULE Spec2Model ----
(***************************************************************************)
(* A model of src/app.py (CSV Matcher: a Streamlit script).                *)
(*                                                                         *)
(* Streamlit re-executes the whole script on every operator interaction;   *)
(* one such execution (a "run") is one action of the session model.        *)
(* The parts of the script are modelled by several specifications over     *)
(* disjoint groups of variables:                                           *)
(*   Spec         the session: upload, paging, MATCH checkboxes, reset,    *)
(*                export (lines 150-229, 236-246, 297-299)                 *)
(*   SpecPage     the pagination arithmetic (lines 210-229)                *)
(*   SpecExtract  extract_og_image (lines 89-104)                          *)
(*   SpecDownload download_image_bytes (lines 107-125)                     *)
(*   SpecCache    the st.cache_data decorators (lines 77, 89, 107)         *)
(*   SpecPass     the row loop of one run, row by row (lines 236-287)      *)
(***************************************************************************)
EXTENDS Integers, Sequences, FiniteSets, TLC

VARIABLES
    \* ---- session (Spec, SpecPage) ----
    uploaded,    \* st.file_uploader holds a file (line 166)
    n,           \* len(df) of the loaded table (line 179)
    page_size,   \* sidebar selectbox "Righe per pagina" (line 196)
    page,        \* number_input "Pagina" (line 214)
    match_map,   \* st.session_state.match_map: dict row_id -> bool (line 151)
    widgets,     \* Streamlit's stored value of the checkbox keyed match_<row_id>
    out_match,   \* the MATCH column of the export computed by the last run
    lastOp,      \* the interaction that caused the last run
    lastSet,     \* history: value of the latest set_match call per row since
                 \* the last reset
    \* ---- extract_og_image (SpecExtract) ----
    ex_html, ex_pc, ex_result,
    \* ---- download_image_bytes (SpecDownload) ----
    dl_pc, dl_status, dl_total, dl_errAt, dl_sent, dl_data, dl_result,
    \* ---- st.cache_data (SpecCache) ----
    cache, now, ticks, ncalls, lastCall, invLog,
    \* ---- row loop (SpecPass) ----
    p_cfg, p_pc, p_idx, p_wd0, p_last, p_log

sessVars == <<uploaded, n, page_size, page, match_map, widgets, out_match,
              lastOp, lastSet>>
exVars   == <<ex_html, ex_pc, ex_result>>
dlVars   == <<dl_pc, dl_status, dl_total, dl_errAt, dl_sent, dl_data, dl_result>>
cacheVars == <<cache, now, ticks, ncalls, lastCall, invLog>>
passVars == <<p_cfg, p_pc, p_idx, p_wd0, p_last, p_log>>
vars == <<sessVars, exVars, dlVars, cacheVars, passVars>>

(***************************************************************************)
(* Optional values (Python's None / pandas' NaN): <<>> is absent, <<v>> is  *)
(* the value v.                                                            *)
(***************************************************************************)
None == <<>>
Some(v) == <<v>>

Min(a, b) == IF a < b THEN a ELSE b
Max(a, b) == IF a > b THEN a ELSE b

(***************************************************************************)
(* Text.  A Python str is a sequence of characters; " " is whitespace.     *)
(***************************************************************************)
RECURSIVE lstrip(_)
lstrip(s) == IF s # <<>> /\ Head(s) = " " THEN lstrip(Tail(s)) ELSE s

RECURSIVE rstrip(_)
rstrip(s) ==
    IF s # <<>> /\ s[Len(s)] = " " THEN rstrip(SubSeq(s, 1, Len(s) - 1)) ELSE s

\* str.strip()
strip(s) == rstrip(lstrip(s))

\* the inactive values of the variable groups a specification does not use
SessIdle ==
    /\ uploaded = FALSE /\ n = 0 /\ page_size = 0 /\ page = 0
    /\ match_map = <<>> /\ widgets = <<>> /\ out_match = <<>>
    /\ lastOp = "idle" /\ lastSet = <<>>
ExIdle == ex_html = <<>> /\ ex_pc = "idle" /\ ex_result = None
DlIdle ==
    /\ dl_pc = "idle" /\ dl_status = 0 /\ dl_total = 0 /\ dl_errAt = 0
    /\ dl_sent = 0 /\ dl_data = 0 /\ dl_result = None
CacheIdle ==
    /\ cache = <<>> /\ now = 0 /\ ticks = 0 /\ ncalls = 0
    /\ lastCall = None /\ invLog = <<>>
PassIdle ==
    /\ p_cfg = <<>> /\ p_pc = "idle" /\ p_idx = 0 /\ p_wd0 = <<>>
    /\ p_last = None /\ p_log = <<>>

(***************************************************************************)
(* Pagination (lines 196, 210-229).                                        *)
(***************************************************************************)
PageSizes == {10, 20, 50, 100}
DefaultPageSize == 20

\* a page count by floor division plus one
total_pages_floor(len, size) == (len \div size) + 1

\* line 210: total_pages = max(1, (len(df) + page_size - 1) // page_size)
total_pages(len, size) == Max(1, (len + size - 1) \div size)

\* line 227: start = (page - 1) * page_size
PageStart(pg, size) == (pg - 1) * size

\* line 228: end = min(len(df), start + page_size)
PageEnd(len, pg, size) == Min(len, PageStart(pg, size) + size)

\* line 229: page_df = df.iloc[start:end]; the row identities of the page
PageRows(len, pg, size) ==
    { i \in 0 .. (len - 1) : PageStart(pg, size) <= i /\ i < PageEnd(len, pg, size) }

\* line 214: the number_input is re-created at its default 1 when its max_value
\* (total_pages) changes, and keeps the operator's value otherwise
PageAfter(oldTotal, newTotal, pg) == IF oldTotal = newTotal THEN pg ELSE 1

(***************************************************************************)
(* Judgment store (lines 150-159) and export (lines 297-299).              *)
(***************************************************************************)
EmptyMap == [k \in {} |-> FALSE]

\* dict assignment d[k] = v
DictPut(d, k, v) == [x \in (DOMAIN d) \cup {k} |-> IF x = k THEN v ELSE d[x]]

\* a store that keeps the first judgment of a row (dict.setdefault)
set_match_first(mm, row_id, value) ==
    IF row_id \in DOMAIN mm THEN mm ELSE DictPut(mm, row_id, value)

\* line 155: st.session_state.match_map[row_id] = value
set_match(mm, row_id, value) == DictPut(mm, row_id, value)

\* line 159: bool(st.session_state.match_map.get(row_id, False))
get_match(mm, row_id) == IF row_id \in DOMAIN mm THEN mm[row_id] ELSE FALSE

\* line 224: st.session_state.match_map = {}
reset_all(mm) == EmptyMap

\* line 299: out["MATCH"] = [bool(match_map.get(i, False)) for i in range(len(out))]
Export(mm, len) == [i \in 0 .. (len - 1) |-> IF i \in DOMAIN mm THEN mm[i] ELSE FALSE]

(***************************************************************************)
(* The MATCH checkbox of one row (lines 243-246).  st.checkbox with a key  *)
(* returns the widget's stored value when the session holds one, and the   *)
(* `value` argument when the widget is created.                            *)
(***************************************************************************)
checkbox(wd, row_id, value) == IF row_id \in DOMAIN wd THEN wd[row_id] ELSE value

RenderCheckbox(row_id, st) ==
    LET current == get_match(st.mm, row_id)
        new_val == checkbox(st.wd, row_id, current)
        wd1     == DictPut(st.wd, row_id, new_val)
    IN  IF new_val # current
        THEN [mm |-> set_match(st.mm, row_id, new_val), wd |-> wd1,
              ls |-> DictPut(st.ls, row_id, new_val)]
        ELSE [mm |-> st.mm, wd |-> wd1, ls |-> st.ls]

\* line 236: for idx, row in page_df.iterrows(), rows start .. end-1 in order
RECURSIVE RenderRows(_, _, _)
RenderRows(i, end, st) ==
    IF i >= end THEN st ELSE RenderRows(i + 1, end, RenderCheckbox(i, st))

\* One complete run of the script on a loaded table (lines 172-309): the row
\* loop, then the export.  At the end of a complete run Streamlit drops the
\* stored value of every widget the run did not render.
Run(mm, wd, ls, len, size, pg) ==
    LET st   == RenderRows(PageStart(pg, size), PageEnd(len, pg, size),
                           [mm |-> mm, wd |-> wd, ls |-> ls])
        rows == PageRows(len, pg, size)
    IN  [mm |-> st.mm,
         wd |-> [k \in (DOMAIN st.wd) \cap rows |-> st.wd[k]],
         ls |-> st.ls,
         out |-> Export(st.mm, len)]

(***************************************************************************)
(* The session (Spec).                                                     *)
(***************************************************************************)
MaxRows == 11
TableSizes == {0, 1, 2, MaxRows}
\* the rows whose checkbox the modelled operator clicks
Operated == {0, 1, 10}

SessInit ==
    /\ uploaded = FALSE
    /\ n = 0
    /\ page_size = DefaultPageSize
    /\ page = 1
    /\ match_map = EmptyMap          \* lines 150-151
    /\ widgets = EmptyMap
    /\ out_match = EmptyMap
    /\ lastOp = "init"
    /\ lastSet = EmptyMap

Commit(r, op) ==
    /\ match_map' = r.mm
    /\ widgets' = r.wd
    /\ lastSet' = r.ls
    /\ out_match' = r.out
    /\ lastOp' = op

\* the operator uploads (or replaces) the CSV: lines 166-179, then the run
Upload(len) ==
    /\ len # n \/ ~uploaded
    /\ uploaded' = TRUE
    /\ n' = len
    /\ page_size' = page_size
    /\ page' = IF uploaded
               THEN PageAfter(total_pages(n, page_size), total_pages(len, page_size), page)
               ELSE 1
    /\ Commit(Run(match_map, widgets, lastSet, len, page_size, page'), "upload")

\* the operator removes the file: the run ends at st.stop() (lines 168-170),
\* before any widget below it is rendered
Unload ==
    /\ uploaded
    /\ uploaded' = FALSE
    /\ n' = 0
    /\ page_size' = DefaultPageSize
    /\ page' = 1
    /\ widgets' = EmptyMap
    /\ out_match' = EmptyMap
    /\ lastOp' = "unload"
    /\ UNCHANGED <<match_map, lastSet>>

\* the operator clicks the MATCH checkbox of a rendered row; the browser
\* sends the flipped value and the script runs
Toggle(row_id) ==
    /\ uploaded
    /\ row_id \in PageRows(n, page, page_size)
    /\ row_id \in DOMAIN widgets
    /\ Commit(Run(match_map, DictPut(widgets, row_id, ~widgets[row_id]), lastSet,
                  n, page_size, page), "toggle")
    /\ UNCHANGED <<uploaded, n, page_size, page>>

\* lines 214, 227-229
SelectPage(pg) ==
    /\ uploaded
    /\ pg \in 1 .. total_pages(n, page_size)
    /\ pg # page
    /\ page' = pg
    /\ Commit(Run(match_map, widgets, lastSet, n, page_size, pg), "page")
    /\ UNCHANGED <<uploaded, n, page_size>>

\* line 196
SelectPageSize(size) ==
    /\ uploaded
    /\ size # page_size
    /\ page_size' = size
    /\ page' = PageAfter(total_pages(n, page_size), total_pages(n, size), page)
    /\ Commit(Run(match_map, widgets, lastSet, n, size, page'), "size")
    /\ UNCHANGED <<uploaded, n>>

\* lines 223-225: the "Reset match" button clears match_map and calls
\* st.rerun() before any checkbox of this run is rendered; the script then runs
\* again from the top.  The handler clears match_map only: the checkbox values
\* live in Streamlit's widget store under the keys match_<row_id>.  Whether the
\* value of a widget the interrupted run did not render is still there in the
\* rerun depends on the Streamlit build and on the browser's copy of the widget
\* state, so both outcomes are possible.
ResetMatch ==
    /\ uploaded
    /\ \E kept \in BOOLEAN :
          Commit(Run(reset_all(match_map), IF kept THEN widgets ELSE EmptyMap,
                     EmptyMap, n, page_size, page), "reset")
    /\ UNCHANGED <<uploaded, n, page_size, page>>

SessNext ==
    \/ \E len \in TableSizes : Upload(len)
    \/ Unload
    \/ \E r \in Operated : Toggle(r)
    \/ \E pg \in 1 .. 2 : SelectPage(pg)
    \/ \E s \in PageSizes : SelectPageSize(s)
    \/ ResetMatch

Init == SessInit /\ ExIdle /\ DlIdle /\ CacheIdle /\ PassIdle
Next == SessNext /\ UNCHANGED <<exVars, dlVars, cacheVars, passVars>>
Spec == Init /\ [][Next]_vars

(***************************************************************************)
(* Pagination alone, on tables of up to MaxTableRows rows (SpecPage).      *)
(***************************************************************************)
MaxTableRows == 100

PageInit ==
    /\ uploaded = TRUE
    /\ n \in 0 .. MaxTableRows                 \* line 179: any table
    /\ page_size = DefaultPageSize            \* line 196: index=1
    /\ page = 1                               \* line 214: value=1
    /\ match_map = EmptyMap /\ widgets = EmptyMap /\ out_match = EmptyMap
    /\ lastOp = "upload" /\ lastSet = EmptyMap

\* line 196: the operator picks the rows per page
PageSelectSize(size) ==
    /\ size # page_size
    /\ page_size' = size
    /\ page' = PageAfter(total_pages(n, page_size), total_pages(n, size), page)
    /\ lastOp' = "size"
    /\ UNCHANGED <<uploaded, n, match_map, widgets, out_match, lastSet>>

\* line 214: the operator picks a page within min_value=1, max_value=total_pages
PageSelect(pg) ==
    /\ pg \in 1 .. total_pages(n, page_size)
    /\ pg # page
    /\ page' = pg
    /\ lastOp' = "page"
    /\ UNCHANGED <<uploaded, n, page_size, match_map, widgets, out_match, lastSet>>

PageNext ==
    \/ \E s \in PageSizes : PageSelectSize(s)
    \/ \E pg \in 1 .. (MaxTableRows + 1) : PageSelect(pg)

InitPage == PageInit /\ ExIdle /\ DlIdle /\ CacheIdle /\ PassIdle
NextPage == PageNext /\ UNCHANGED <<exVars, dlVars, cacheVars, passVars>>
SpecPage == InitPage /\ [][NextPage]_vars

\* ceil(a / b), the least k with k * b >= a
CeilDiv(a, b) == CHOOSE k \in 0 .. a : k * b >= a /\ \A j \in 0 .. (k - 1) : j * b < a

\* C10: total_pages = max(1, ceil(n / s)); every page p of 1 .. total_pages
\* holds exactly the rows (p-1)*s .. min(n, p*s)-1 under their own identities;
\* every row 0 .. n-1 lies on exactly one page; the shown page is one of them.
C10_Pagination ==
    LET s  == page_size
        tp == total_pages(n, s)
    IN  /\ s \in PageSizes
        /\ tp = Max(1, CeilDiv(n, s))
        /\ page \in 1 .. tp
        /\ \A p \in 1 .. tp :
              PageRows(n, p, s) = ((p - 1) * s) .. (Min(n, p * s) - 1)
        /\ \A i \in 0 .. (n - 1) :
              Cardinality({p \in 1 .. tp : i \in PageRows(n, p, s)}) = 1

\* C10 witness: 95 rows at 20 per page, page 5 of 5 shows rows 80 .. 94
C10_Witness ==
    /\ n = 95 /\ page_size = 20 /\ page = 5
    /\ total_pages(n, page_size) = 5
    /\ PageRows(n, page, page_size) = 80 .. 94

(***************************************************************************)
(* extract_og_image (lines 89-104) on parsed markup (SpecExtract).         *)
(* Markup is the sequence of its <meta> tags in document order; a tag has  *)
(* property="og:image" (og), name="twitter:image" (tw), both or neither,   *)
(* and an optional content attribute.  `raises` marks input on which the   *)
(* parser raises.                                                          *)
(***************************************************************************)
MaxTags == 2
Contents ==
    {None, Some(<<>>), Some(<<" ">>), Some(<<" ", " ">>), Some(<<"A">>),
     Some(<<" ", "A">>), Some(<<"B">>), Some(<<"B", " ">>)}
MetaTags == [og : BOOLEAN, tw : BOOLEAN, content : Contents]
TagLists == UNION {[1 .. k -> MetaTags] : k \in 0 .. MaxTags}
\* the empty string "", markup that parses, and markup the parser raises on
EmptyText == [empty |-> TRUE, raises |-> FALSE, tags |-> <<>>]
Htmls == {[empty |-> FALSE, raises |-> FALSE, tags |-> t] : t \in TagLists}
             \cup {[empty |-> FALSE, raises |-> TRUE, tags |-> <<>>], EmptyText}

\* soup.find("meta", ...): the first matching tag, or None
RECURSIVE find(_, _)
find(tags, attr) ==
    IF tags = <<>> THEN None
    ELSE IF (attr = "og" /\ Head(tags).og) \/ (attr = "tw" /\ Head(tags).tw)
         THEN Some(Head(tags))
         ELSE find(Tail(tags), attr)

\* `tag and tag.get("content")`: a tag was found and its content attribute is
\* present and not the empty string
Truthy(tag) == tag # None /\ tag[1].content # None /\ tag[1].content[1] # <<>>

\* lines 90-104
extract_og_image(html) ==
    IF html.raises THEN None                                 \* lines 103-104
    ELSE LET og == find(html.tags, "og")                     \* line 93
             tw == find(html.tags, "tw")                     \* line 98
         IN  IF Truthy(og) THEN Some(strip(og[1].content[1]))        \* 94-95
             ELSE IF Truthy(tw) THEN Some(strip(tw[1].content[1]))   \* 99-100
             ELSE None                                               \* 102

ExtractInit == ex_html \in Htmls /\ ex_pc = "call" /\ ex_result = None

ExtractCall ==
    /\ ex_pc = "call"
    /\ ex_result' = extract_og_image(ex_html)
    /\ ex_pc' = "done"
    /\ UNCHANGED ex_html

InitExtract == ExtractInit /\ SessIdle /\ DlIdle /\ CacheIdle /\ PassIdle
NextExtract == ExtractCall /\ UNCHANGED <<sessVars, dlVars, cacheVars, passVars>>
SpecExtract == InitExtract /\ [][NextExtract]_vars

\* a tag that has content: the attribute is present and not blank
HasContent(tag) == tag # None /\ tag[1].content # None /\ strip(tag[1].content[1]) # <<>>

\* C9: the result is the trimmed og:image content when that tag has content,
\* otherwise the trimmed twitter:image content when that tag has content, and
\* absent when neither tag is present or the content is empty or blank; the
\* result is never the empty string.
C9_ExtractOrder ==
    ex_pc = "done" /\ ~ex_html.raises =>
        LET og == find(ex_html.tags, "og")
            tw == find(ex_html.tags, "tw")
        IN  /\ ex_result # Some(<<>>)
            /\ ex_result = IF HasContent(og) THEN Some(strip(og[1].content[1]))
                           ELSE IF HasContent(tw) THEN Some(strip(tw[1].content[1]))
                           ELSE None

(***************************************************************************)
(* download_image_bytes (lines 107-125), chunk by chunk (SpecDownload).    *)
(* Bytes are modelled by their count.  The response has dl_total bytes and *)
(* arrives in chunks of chunk_size, the last one shorter; dl_status = 0    *)
(* stands for a GET that raises requests.RequestException, and dl_errAt = k*)
(* (k > 0) for a stream that raises it when chunk k is read.               *)
(***************************************************************************)
max_bytes == 3500000
chunk_size == 64 * 1024
MaxStreamChunks == 61
Remainders == {0, 1, 2304}
StreamLengths == {k * chunk_size + r : k \in 0 .. MaxStreamChunks, r \in Remainders}
Statuses == {0, 200, 399, 400, 503}
ErrorAt == {0, 1, 30}

\* a loop body that never looks at the cap
iter_step_uncapped(data, chunk) ==
    IF chunk = 0 THEN [data |-> data, stop |-> TRUE]
    ELSE [data |-> data + chunk, stop |-> FALSE]

\* lines 118-122: one iteration of `for chunk in r.iter_content(...)`
iter_step(data, chunk) ==
    IF chunk = 0 THEN [data |-> data, stop |-> TRUE]                 \* 118-119
    ELSE [data |-> data + chunk, stop |-> (data + chunk > max_bytes)] \* 120-122

DownloadInit ==
    /\ dl_pc = "call"
    /\ dl_status \in Statuses
    /\ dl_total \in StreamLengths
    /\ dl_errAt \in ErrorAt
    /\ dl_sent = 0 /\ dl_data = 0 /\ dl_result = None

\* lines 109-116: the GET, the status check, the empty buffer
DownloadGet ==
    /\ dl_pc = "call"
    /\ IF dl_status = 0 THEN dl_pc' = "caught" /\ dl_result' = None      \* 124-125
       ELSE IF dl_status >= 400 THEN dl_pc' = "refused" /\ dl_result' = None  \* 111-112
       ELSE dl_pc' = "loop" /\ dl_result' = None
    /\ dl_data' = 0
    /\ UNCHANGED <<dl_status, dl_total, dl_errAt, dl_sent>>

\* lines 117-125: read the next chunk; return when the stream ends or the
\* loop breaks; a RequestException while reading yields None
DownloadChunk ==
    /\ dl_pc = "loop"
    /\ dl_sent' = dl_sent + 1
    /\ IF dl_errAt = dl_sent + 1
       THEN dl_pc' = "caught" /\ dl_result' = None /\ dl_data' = dl_data
       ELSE IF dl_data = dl_total              \* the iterator is exhausted
       THEN dl_pc' = "done" /\ dl_result' = Some(dl_data) /\ dl_data' = dl_data
       ELSE LET it == iter_step(dl_data, Min(chunk_size, dl_total - dl_data))
            IN  /\ dl_data' = it.data
                /\ IF it.stop
                   THEN dl_pc' = "done" /\ dl_result' = Some(it.data)      \* 123
                   ELSE dl_pc' = "loop" /\ dl_result' = None
    /\ UNCHANGED <<dl_status, dl_total, dl_errAt>>

DownloadNext == DownloadGet \/ DownloadChunk

InitDownload == DownloadInit /\ SessIdle /\ ExIdle /\ CacheIdle /\ PassIdle
NextDownload == DownloadNext /\ UNCHANGED <<sessVars, exVars, cacheVars, passVars>>
SpecDownload == InitDownload /\ [][NextDownload]_vars

\* C5 as claimed: a delivered stream with status < 400 yields a result that is
\* present and never longer than max_bytes.
C5_NeverLongerThanCap ==
    dl_pc = "done" => dl_result # None /\ dl_result[1] <= max_bytes

\* C5 as amended: the result is present, a prefix of the source, longer than
\* the cap by less than one chunk at most, and shorter than the source only
\* when it has passed the cap.
C5_CapPlusOneChunk ==
    dl_pc = "done" =>
        /\ dl_result # None
        /\ dl_result[1] <= dl_total
        /\ dl_result[1] < max_bytes + chunk_size
        /\ dl_result[1] < dl_total => dl_result[1] > max_bytes

\* C5 witness: a 4,000,000-byte stream is cut after the 54th chunk
C5_Witness ==
    /\ dl_pc = "done" /\ dl_status = 200 /\ dl_total = 4000000
    /\ dl_result = Some(54 * chunk_size)
    /\ dl_result[1] > max_bytes

(***************************************************************************)
(* The cached functions as whole calls.  A call returns a value or raises: *)
(* Return(v) / Raise.  A response is what SESSION.get produced: exc marks  *)
(* a requests.RequestException (transport error, timeout), otherwise the   *)
(* status, the text (fetch_html) and the body length (download).           *)
(***************************************************************************)
Return(v) == [raised |-> FALSE, value |-> v]
Raise == [raised |-> TRUE, value |-> None]

\* a page fetch that lets the transport error escape
fetch_html_unguarded(resp) ==
    IF resp.exc THEN Raise
    ELSE IF resp.status >= 400 THEN Return(None)
    ELSE Return(Some(resp.text))

\* lines 78-86
fetch_html(resp) ==
    IF resp.exc THEN Return(None)                      \* 85-86
    ELSE IF resp.status >= 400 THEN Return(None)       \* 81-82
    ELSE Return(Some(resp.text))                       \* 84

\* lines 117-123: the chunk loop on a stream of `total` bytes
RECURSIVE read_stream(_, _)
read_stream(data, total) ==
    IF data = total THEN data
    ELSE LET it == iter_step(data, Min(chunk_size, total - data))
         IN  IF it.stop THEN it.data ELSE read_stream(it.data, total)

\* a download that lets the transport error escape
download_image_bytes_unguarded(resp) ==
    IF resp.exc THEN Raise
    ELSE IF resp.status >= 400 THEN Return(None)
    ELSE Return(Some(read_stream(0, resp.total)))

\* lines 108-125; resp.exc covers an error of the GET or of the stream
download_image_bytes(resp) ==
    IF resp.exc THEN Return(None)                      \* 124-125
    ELSE IF resp.status >= 400 THEN Return(None)       \* 111-112
    ELSE Return(Some(read_stream(0, resp.total)))      \* 115-123

(***************************************************************************)
(* st.cache_data (lines 77, 89, 107): a store keyed by (function,          *)
(* argument) holding the returned value, None included, and the time it    *)
(* was stored; an entry is served while younger than the function's ttl.   *)
(* A call that raises stores nothing (SpecCache).                          *)
(***************************************************************************)
MaxCalls == 3
MaxTicks == 2
CacheKeys == {1, 2}
TickSteps == {30 * 60, 47 * 30 * 60}
Kinds == {"fetch_html", "extract_og_image", "download_image_bytes"}

\* lines 77, 89, 107: ttl=60 * 60, ttl=24 * 60 * 60, ttl=24 * 60 * 60
ttl(kind) == IF kind = "fetch_html" THEN 60 * 60 ELSE 24 * 60 * 60

PageOg == [empty |-> FALSE, raises |-> FALSE,
           tags |-> <<[og |-> TRUE, tw |-> FALSE, content |-> Some(<<"A">>)]>>]
PageBare == [empty |-> FALSE, raises |-> FALSE, tags |-> <<>>]
PageBroken == [empty |-> FALSE, raises |-> TRUE, tags |-> <<>>]

\* what the network answers to a GET
Responses ==
    {[exc |-> TRUE,  status |-> 0,   text |-> EmptyText, total |-> 0],
     [exc |-> FALSE, status |-> 404, text |-> PageBare,  total |-> 9],
     [exc |-> FALSE, status |-> 200, text |-> PageOg,    total |-> 5000],
     [exc |-> FALSE, status |-> 200, text |-> EmptyText, total |-> 0]}

\* the markup the extract keys stand for
KeyHtml(key) == IF key = 1 THEN PageOg ELSE PageBroken

Fresh(c, kind, key, t) ==
    /\ <<kind, key>> \in DOMAIN c
    /\ t < c[<<kind, key>>].at + ttl(kind)

\* the log of the invocations of the underlying operations: how many times
\* each (kind, key) was invoked at each time
LogInvocation(log, inv) ==
    DictPut(log, inv, IF inv \in DOMAIN log THEN log[inv] + 1 ELSE 1)

\* a call of a decorated function; `res` is what its body returns if it runs
CachedCall(kind, key, res) ==
    /\ ncalls < MaxCalls
    /\ ncalls' = ncalls + 1
    /\ IF Fresh(cache, kind, key, now)
       THEN /\ lastCall' = Some([kind |-> kind, key |-> key, at |-> now, hit |-> TRUE,
                                 raised |-> FALSE, value |-> cache[<<kind, key>>].value])
            /\ UNCHANGED <<cache, invLog>>
       ELSE /\ invLog' = LogInvocation(invLog, [kind |-> kind, key |-> key, at |-> now])
            /\ lastCall' = Some([kind |-> kind, key |-> key, at |-> now, hit |-> FALSE,
                                 raised |-> res.raised, value |-> res.value])
            /\ cache' = IF res.raised THEN cache
                        ELSE DictPut(cache, <<kind, key>>, [value |-> res.value, at |-> now])
    /\ UNCHANGED <<now, ticks>>

CallFetch == \E key \in CacheKeys, resp \in Responses :
    CachedCall("fetch_html", key, fetch_html(resp))

CallExtract == \E key \in CacheKeys :
    CachedCall("extract_og_image", key, Return(extract_og_image(KeyHtml(key))))

CallDownload == \E key \in CacheKeys, resp \in Responses :
    CachedCall("download_image_bytes", key, download_image_bytes(resp))

\* time passes between calls
CacheTick ==
    /\ ticks < MaxTicks
    /\ ncalls < MaxCalls
    /\ \E d \in TickSteps : now' = now + d
    /\ ticks' = ticks + 1
    /\ UNCHANGED <<cache, ncalls, lastCall, invLog>>

CacheInit ==
    /\ cache = EmptyMap /\ now = 0 /\ ticks = 0 /\ ncalls = 0
    /\ lastCall = None /\ invLog = EmptyMap

CacheNext == CallFetch \/ CallExtract \/ CallDownload \/ CacheTick

InitCache == CacheInit /\ SessIdle /\ ExIdle /\ DlIdle /\ PassIdle
NextCache == CacheNext /\ UNCHANGED <<sessVars, exVars, dlVars, passVars>>
SpecCache == InitCache /\ [][NextCache]_vars

\* the invocations of the underlying operation of (kind, key) in the ttl
\* window that ends at time t
InvocationsInWindow(kind, key, t) ==
    {i \in DOMAIN invLog : i.kind = kind /\ i.key = key /\ t - ttl(kind) < i.at /\ i.at <= t}

\* C6: every call of a cached operation is covered by exactly one invocation
\* of the underlying operation within the ttl window before it (so any number
\* of calls inside one window invoke it once), also when that invocation
\* produced an absent result; no call raises.
C6_OnceWithinTtl ==
    /\ lastCall # None =>
          /\ ~lastCall[1].raised
          /\ Cardinality(InvocationsInWindow(lastCall[1].kind, lastCall[1].key,
                                             lastCall[1].at)) = 1
    /\ \A i \in DOMAIN invLog : invLog[i] = 1
    /\ \A i, j \in DOMAIN invLog :
          (i.kind = j.kind /\ i.key = j.key /\ i.at < j.at) => j.at - i.at >= ttl(i.kind)

\* C6 witness: a repeated call, later than the first but inside its window, is
\* served the cached absent result of a failed page fetch without a second
\* invocation
C6_Witness ==
    /\ lastCall # None
    /\ lastCall[1].kind = "fetch_html" /\ lastCall[1].hit
    /\ lastCall[1].value = None
    /\ \E i \in DOMAIN invLog :
          i.kind = "fetch_html" /\ i.key = lastCall[1].key /\ i.at < lastCall[1].at
    /\ Cardinality({i \in DOMAIN invLog : i.kind = "fetch_html"
                                          /\ i.key = lastCall[1].key}) = 1

(***************************************************************************)
(* The row loop of one run, step by step (lines 236-287), then the export  *)
(* (lines 297-299) (SpecPass).  A cell of the table is NaN (None:   *)
(* pandas reads an empty CSV field as NaN) or text; "u" stands for the     *)
(* characters of a URL.                                                    *)
(***************************************************************************)
MaxPassRows == 2
Cells == {None, Some(<<" ">>), Some(<<"u">>), Some(<<" ", "u">>)}
GrossCells == {None, Some(<<" ">>), Some(<<"u">>)}
Rates == {0, 60}

\* pd.notna(v)
notna(cell) == cell # None

\* str(v): the text of a cell; str(NaN) is "nan"
str(cell) == IF cell = None THEN <<"n", "a", "n">> ELSE cell[1]

NoResponse == [exc |-> TRUE, status |-> 0, text |-> EmptyText, total |-> 0]

\* what the network answers to the GET of a page
PageResponses ==
    {NoResponse,
     [exc |-> FALSE, status |-> 404, text |-> PageBare,   total |-> 0],
     [exc |-> FALSE, status |-> 200, text |-> PageOg,     total |-> 0],
     [exc |-> FALSE, status |-> 200, text |-> PageBare,   total |-> 0],
     [exc |-> FALSE, status |-> 200, text |-> PageBroken, total |-> 0],
     [exc |-> FALSE, status |-> 200, text |-> EmptyText,  total |-> 0]}

\* what the network answers to the GET of an image
ImageResponses ==
    {NoResponse,
     [exc |-> FALSE, status |-> 404, text |-> EmptyText, total |-> 9],
     [exc |-> FALSE, status |-> 200, text |-> EmptyText, total |-> 5000],
     [exc |-> FALSE, status |-> 200, text |-> EmptyText, total |-> 0]}

\* requests raises MissingSchema, a RequestException, for text that is no URL
AnswersTo(url, answers) == IF url = <<"n", "a", "n">> THEN {NoResponse} ELSE answers

\* line 133: the optional image column is configured and the row's value is
\* present and not blank
DirectImage(row, amazon_img_col) ==
    amazon_img_col /\ notna(row.img) /\ strip(str(row.img)) # <<>>

\* line 136-138: the text the resolver would fetch; <<>> when blank
PrimaryUrl(row) == strip(str(row.url))

\* lines 128-144; `resp` answers the page fetch if one is made.  The result
\* says whether fetch_html was called.
get_amazon_image_url(row, amazon_img_col, resp) ==
    IF DirectImage(row, amazon_img_col)
    THEN [raised |-> FALSE, value |-> Some(strip(str(row.img))), fetched |-> FALSE]
    ELSE IF PrimaryUrl(row) = <<>>                                     \* 137-138
    THEN [raised |-> FALSE, value |-> None, fetched |-> FALSE]
    ELSE LET html == fetch_html(resp)                                  \* 140
         IN  IF html.raised
             THEN [raised |-> TRUE, value |-> None, fetched |-> TRUE]
             ELSE IF html.value = None \/ html.value[1].empty          \* 141-142
             THEN [raised |-> FALSE, value |-> None, fetched |-> TRUE]
             ELSE [raised |-> FALSE, value |-> extract_og_image(html.value[1]),
                   fetched |-> TRUE]                                   \* 144

\* a pause after every row whenever the interval is positive
pacing_any_row(rate_limit_ms, amazon_img_col) == rate_limit_ms > 0

\* line 286: if rate_limit_ms > 0 and amazon_img_col is None
pacing(rate_limit_ms, amazon_img_col) == rate_limit_ms > 0 /\ ~amazon_img_col

\* lines 252-259 and 265-272: download the image of a non-empty URL and show
\* it when the bytes are non-empty
show_image(url, resp) ==
    IF url = None \/ url[1] = <<>>
    THEN [raised |-> FALSE, shown |-> FALSE, tried |-> FALSE]
    ELSE LET b == download_image_bytes(resp)
         IN  [raised |-> b.raised,
              shown  |-> ~b.raised /\ b.value # None /\ b.value[1] > 0,
              tried  |-> TRUE]

\* line 264
gross_url(cell) == IF notna(cell) THEN Some(strip(str(cell))) ELSE Some(<<>>)

PassInit ==
    /\ uploaded = TRUE
    /\ n \in 0 .. MaxPassRows
    /\ page_size = DefaultPageSize /\ page = 1
    /\ match_map = EmptyMap
    /\ widgets \in [0 .. (n - 1) -> BOOLEAN]
    /\ lastSet = match_map
    /\ out_match = EmptyMap
    /\ lastOp = "run"
    /\ p_cfg \in [img_col : BOOLEAN, rate_limit_ms : Rates]
    /\ p_pc = "row"
    /\ p_idx = PageStart(page, page_size)
    /\ p_wd0 = [mm |-> match_map, wd |-> widgets, ls |-> lastSet]
    /\ p_last = None
    /\ p_log = <<>>

\* lines 237-251: the MATCH checkbox of the row at p_idx, then the resolution
\* of its Amazon image URL.  An exception that escapes a call ends the run.
PassResolve ==
    /\ p_pc = "row"
    /\ p_idx < PageEnd(n, page, page_size)
    /\ \E img \in (IF p_cfg.img_col THEN Cells ELSE {None}), url \in Cells :
       LET row == [img |-> img, url |-> url]
           st  == RenderCheckbox(p_idx, [mm |-> match_map, wd |-> widgets, ls |-> lastSet])
           willFetch == ~DirectImage(row, p_cfg.img_col) /\ PrimaryUrl(row) # <<>>
       IN  \E rf \in (IF willFetch THEN AnswersTo(PrimaryUrl(row), PageResponses)
                                   ELSE {NoResponse}) :
           LET a == get_amazon_image_url(row, p_cfg.img_col, rf)       \* 251
           IN  /\ match_map' = st.mm
               /\ widgets' = st.wd
               /\ lastSet' = st.ls
               /\ p_pc' = IF a.raised THEN "crashed" ELSE "amazon"
               /\ p_last' = Some([row_id |-> p_idx, img |-> img, url |-> url,
                      amazon_url |-> a.value, fetched |-> a.fetched,
                      direct |-> DirectImage(row, p_cfg.img_col),
                      fetch_failed |-> a.fetched /\ (rf.exc \/ rf.status >= 400),
                      parse_failed |-> a.fetched /\ ~rf.exc /\ rf.status < 400
                                         /\ rf.text.raises,
                      amazon_failed |-> FALSE, amazon_shown |-> FALSE,
                      gross_failed |-> FALSE, gross_shown |-> FALSE])
    /\ UNCHANGED <<uploaded, n, page_size, page, out_match, lastOp, p_cfg, p_idx,
                   p_wd0, p_log>>

\* lines 252-259: download and show the Amazon image
PassAmazon ==
    /\ p_pc = "amazon"
    /\ \E ra \in (IF p_last[1].amazon_url # None /\ p_last[1].amazon_url[1] # <<>>
                   THEN ImageResponses ELSE {NoResponse}) :
       LET am == show_image(p_last[1].amazon_url, ra)
       IN  /\ p_pc' = IF am.raised THEN "crashed" ELSE "gross"
           /\ p_last' = Some([p_last[1] EXCEPT
                  !.amazon_failed = am.tried /\ (ra.exc \/ ra.status >= 400),
                  !.amazon_shown = am.shown])
    /\ UNCHANGED <<sessVars, p_cfg, p_idx, p_wd0, p_log>>

\* lines 262-272: download and show the Grossista image
PassGross ==
    /\ p_pc = "gross"
    /\ \E gross \in GrossCells :
       \E rg \in (IF gross_url(gross)[1] # <<>> THEN ImageResponses ELSE {NoResponse}) :
       LET gr == show_image(gross_url(gross), rg)
       IN  /\ p_pc' = IF gr.raised THEN "crashed" ELSE "pause"
           /\ p_last' = Some([p_last[1] EXCEPT
                  !.gross_failed = gr.tried /\ (rg.exc \/ rg.status >= 400),
                  !.gross_shown = gr.shown])
    /\ UNCHANGED <<sessVars, p_cfg, p_idx, p_wd0, p_log>>

\* lines 285-287: the pause, then the next row
PassPause ==
    /\ p_pc = "pause"
    /\ p_log' = Append(p_log,
           [row_id |-> p_idx, direct |-> p_last[1].direct, fetched |-> p_last[1].fetched,
            slept |-> pacing(p_cfg.rate_limit_ms, p_cfg.img_col),
            failed |-> p_last[1].fetch_failed \/ p_last[1].parse_failed
                         \/ p_last[1].amazon_failed \/ p_last[1].gross_failed])
    /\ p_idx' = p_idx + 1
    /\ p_pc' = "row"
    /\ p_last' = None
    /\ UNCHANGED <<sessVars, p_cfg, p_wd0>>

\* lines 297-299 after the loop: the export of the run
PassExport ==
    /\ p_pc = "row"
    /\ p_idx = PageEnd(n, page, page_size)
    /\ out_match' = Export(match_map, n)
    /\ p_pc' = "done"
    /\ UNCHANGED <<uploaded, n, page_size, page, match_map, widgets, lastSet, lastOp,
                   p_cfg, p_idx, p_wd0, p_last, p_log>>

PassNext == PassResolve \/ PassAmazon \/ PassGross \/ PassPause \/ PassExport

InitPass == PassInit /\ ExIdle /\ DlIdle /\ CacheIdle
NextPass == PassNext /\ UNCHANGED <<exVars, dlVars, cacheVars>>
SpecPass == InitPass /\ [][NextPass]_vars

\* a cell that is missing or holds only whitespace
Blank(cell) == cell = None \/ strip(cell[1]) = <<>>

\* C4: when the optional image field is configured and the row's value is
\* present and not blank, the resolver returns that value (as URL text, without
\* the surrounding whitespace) and fetch_html is not called for the row; when
\* the field is unconfigured or blank for the row and the primary URL is blank,
\* it returns absent, again without calling fetch_html.
C4_ResolverShortCircuit ==
    p_last # None =>
        LET r == p_last[1]
        IN  /\ (p_cfg.img_col /\ ~Blank(r.img))
                  => (r.amazon_url = Some(strip(r.img[1])) /\ ~r.fetched)
            /\ ((~p_cfg.img_col \/ Blank(r.img)) /\ Blank(r.url))
                  => (r.amazon_url = None /\ ~r.fetched)

\* C7 as claimed: with a positive pacing interval the pass waits after a row
\* exactly when the resolution of that row called fetch_html.
C7_PauseIffFetched ==
    p_cfg.rate_limit_ms > 0 =>
        \A i \in DOMAIN p_log : p_log[i].slept <=> p_log[i].fetched

\* C7 as amended: the pass waits after a row exactly when the interval is
\* positive and no optional image column is configured, whether or not the
\* row's resolution called fetch_html; a row whose image came from the direct
\* field is never followed by a wait; the rows are logged in order, each with
\* its wait decided before the next row starts.
C7_PauseIffNoImageColumn ==
    /\ Len(p_log) = p_idx
    /\ \A i \in DOMAIN p_log :
          /\ p_log[i].row_id = i - 1
          /\ p_log[i].slept <=> (p_cfg.rate_limit_ms > 0 /\ ~p_cfg.img_col)
          /\ p_log[i].direct => ~p_log[i].slept
          /\ (p_log[i].fetched /\ p_cfg.rate_limit_ms > 0 /\ ~p_cfg.img_col)
                => p_log[i].slept

\* C7 witness: with a positive interval and an image column configured, one
\* row took its image from the direct field and another, whose field was
\* blank, went to fetch_html; neither was followed by a wait
C7_Witness ==
    /\ p_cfg.rate_limit_ms > 0 /\ p_cfg.img_col
    /\ \E i, j \in DOMAIN p_log :
          /\ p_log[i].direct /\ ~p_log[i].fetched /\ ~p_log[i].slept
          /\ ~p_log[j].direct /\ p_log[j].fetched /\ ~p_log[j].slept

\* the rows whose checkbox the run has rendered so far
RowsRendered == IF p_pc \in {"row", "done"} THEN p_idx ELSE p_idx + 1

\* C8: a network or parse failure in the page fetch, the extraction or an
\* image download of a row leaves that image absent and nothing else: no
\* exception ends the run, the rows are processed in order, the run can always
\* go on until the export, which covers every row, and the judgment store
\* holds what the checkboxes alone decide.
C8_FailureContained ==
    /\ p_pc # "crashed"
    /\ p_pc # "done" => ENABLED PassNext
    /\ Len(p_log) = p_idx
    /\ \A i \in DOMAIN p_log : p_log[i].row_id = i - 1
    /\ p_pc = "done" => (p_idx = n /\ out_match = Export(match_map, n))
    /\ p_last # None =>
          LET r == p_last[1]
          IN  /\ (r.fetch_failed \/ r.parse_failed)
                    => (r.amazon_url = None /\ ~r.amazon_shown)
              /\ r.amazon_failed => ~r.amazon_shown
              /\ r.gross_failed => ~r.gross_shown
    /\ match_map = RenderRows(0, RowsRendered, p_wd0).mm

\* C8 witness: the run reached the export although its first row had a
\* failure; the second row was processed without one and the judgment set on
\* the first row is exported
C8_Witness ==
    /\ p_pc = "done" /\ Len(p_log) = 2
    /\ p_log[1].failed /\ ~p_log[2].failed
    /\ out_match[0] = TRUE

(***************************************************************************)
(* Claims about the session.                                               *)
(***************************************************************************)

\* C1: on a loaded table of n rows the export holds exactly n MATCH values,
\* one per row in row order, and the value of row i is the value of the most
\* recent set_match(i, .) since the last reset (last write wins), or false when
\* row i has not been set since.
C1_ExportLastWriteWins ==
    uploaded =>
        /\ DOMAIN out_match = 0 .. (n - 1)
        /\ \A i \in 0 .. (n - 1) :
              out_match[i] = (IF i \in DOMAIN lastSet THEN lastSet[i] ELSE FALSE)

\* C1 witness: a row set to true and later to false exports false while
\* another row set to true exports true and a third was never set
C1_Witness ==
    /\ uploaded
    /\ \E i, j, k \in 0 .. (n - 1) :
          /\ i \in DOMAIN lastSet /\ lastSet[i] = FALSE /\ out_match[i] = FALSE
          /\ j \in DOMAIN lastSet /\ lastSet[j] = TRUE /\ out_match[j] = TRUE
          /\ k \notin DOMAIN lastSet /\ out_match[k] = FALSE

C3_StoreWithinTable ==
    uploaded => DOMAIN match_map \subseteq 0 .. (n - 1)

====
